---- MODULE Spec2Model ----
(***************************************************************************)
(* Model of the governance action: run() (src/src/index.ts), the GitHub    *)
(* helpers and the comment renderer (src/src/index.ts, lines 83-287) and   *)
(* the schema review task with its model call (src/src/lib/ai.ts).         *)
(*                                                                         *)
(* Text whose characters matter (file paths, the catalog directory, the    *)
(* model's analysis text) is a sequence of one-character strings.  Text    *)
(* that is only produced (messages, comment lines) is a sequence of        *)
(* string tokens.                                                          *)
(***************************************************************************)
EXTENDS Integers, Sequences, FiniteSets, TLC

VARIABLES
    githubToken,        \* input github_token ("" when not supplied)
    task,               \* input task
    failureThresholdInput, \* input failure_threshold
    catalogDirectory,   \* input catalog_directory (<<>> when not supplied)
    eventName,          \* context.eventName
    hasPullRequest,     \* context.payload.pull_request is present
    prFiles,            \* the file names pulls.listFiles returns for the pull request
    pc,                 \* position in run / performSchemaReview / the renderer
    changedFilePaths,   \* changedFilePaths of run and performSchemaReview
    reviewIndex,        \* index of the next path of the for-of loop (1-based)
    reviewedFiles,      \* reviewedFiles of performSchemaReview
    overallLowestScore, \* overallLowestScore of performSchemaReview
    lowScoreFile,       \* lowScoreFile of performSchemaReview
    commentBody,        \* commentBody of run: a sequence of lines
    failedMessages,     \* the messages of the core.setFailed calls, in order
    calls,              \* the external calls made so far, in order
    caught,             \* the values caught by the catch of run (at most one)
    title,              \* formatSectionAsBulletedList: title
    content,            \* formatSectionAsBulletedList: content
    sectionString       \* formatSectionAsBulletedList: result, a sequence of lines

inputVars == <<githubToken, task, failureThresholdInput, catalogDirectory,
               eventName, hasPullRequest, prFiles>>

reviewVars == <<changedFilePaths, reviewIndex, reviewedFiles, overallLowestScore,
                lowScoreFile>>

formatVars == <<title, content, sectionString>>

vars == <<githubToken, task, failureThresholdInput, catalogDirectory, eventName,
          hasPullRequest, prFiles, pc, changedFilePaths, reviewIndex,
          reviewedFiles, overallLowestScore, lowScoreFile, commentBody,
          failedMessages, calls, caught, title, content, sectionString>>

(***************************************************************************)
(* Bounds of the model.                                                    *)
(***************************************************************************)
\* longest list of changed files
MaxFiles == 2

\* most reviewed files given to generateCommentBody when it is driven on its own
MaxRendered == 1

\* longest analysis text given to formatSectionAsBulletedList, in characters
MaxLen == 5

(***************************************************************************)
(* Characters and strings.                                                 *)
(***************************************************************************)
NL == "\n"

\* String.prototype.trim / \s : white space (line terminators included)
IsSpace(c) == c \in {" ", "\t", "\r", NL}

\* [*\-+]
IsSymbolMarker(c) == c \in {"*", "-", "+"}

\* o, with the i flag
IsO(c) == c \in {"o", "O"}

\* [0-9]
IsDigit(c) == c \in {"0", "1", "2", "3", "4", "5", "6", "7", "8", "9"}

\* [ivxlcdm], with the i flag
IsRoman(c) == c \in {"i", "v", "x", "l", "c", "d", "m",
                     "I", "V", "X", "L", "C", "D", "M"}

RECURSIVE SkipSpaces(_, _)
\* first index >= i of s that holds no white space (Len(s) + 1 if none)
SkipSpaces(s, i) ==
    IF i <= Len(s) /\ IsSpace(s[i]) THEN SkipSpaces(s, i + 1) ELSE i

RECURSIVE SkipDigits(_, _)
SkipDigits(s, i) ==
    IF i <= Len(s) /\ IsDigit(s[i]) THEN SkipDigits(s, i + 1) ELSE i

RECURSIVE SkipRomans(_, _)
SkipRomans(s, i) ==
    IF i <= Len(s) /\ IsRoman(s[i]) THEN SkipRomans(s, i + 1) ELSE i

RECURSIVE LastNonSpace(_, _)
\* last index <= i of s that holds no white space (0 if none)
LastNonSpace(s, i) ==
    IF i >= 1 /\ IsSpace(s[i]) THEN LastNonSpace(s, i - 1) ELSE i

TrimEnd(s) == SubSeq(s, 1, LastNonSpace(s, Len(s)))

TrimStart(s) == SubSeq(s, SkipSpaces(s, 1), Len(s))

Trim(s) == TrimStart(TrimEnd(s))

\* file.startsWith(prefix)
StartsWith(s, prefix) ==
    /\ Len(prefix) <= Len(s)
    /\ SubSeq(s, 1, Len(prefix)) = prefix

RECURSIVE SplitFrom(_, _, _)
\* the lines of s from index i on, cur being the line read so far
SplitFrom(s, i, cur) ==
    IF i > Len(s) THEN <<cur>>
    ELSE IF s[i] = NL THEN <<cur>> \o SplitFrom(s, i + 1, <<>>)
    ELSE SplitFrom(s, i + 1, Append(cur, s[i]))

\* content.split('\n')
Split(s) == SplitFrom(s, 1, <<>>)

(***************************************************************************)
(* formatSectionAsBulletedList                                             *)
(***************************************************************************)
\* the marker alternative of listMarkerRegex at index p of s: the index after
\* the marker, or 0 when no alternative matches there
MarkerEnd(s, p) ==
    IF p > Len(s) THEN 0
    ELSE IF IsSymbolMarker(s[p]) \/ IsO(s[p]) THEN p + 1
    ELSE IF IsDigit(s[p])
         THEN LET q == SkipDigits(s, p)
              IN  IF q <= Len(s) /\ s[q] = "." THEN q + 1 ELSE 0
    ELSE IF IsRoman(s[p])
         THEN LET q == SkipRomans(s, p)
              IN  IF q <= Len(s) /\ s[q] = "." THEN q + 1 ELSE 0
    ELSE 0

\* /^\s*([*\-+]|o|[0-9]+\.|[ivxlcdm]+\.)\s+/i.test(s)
ListMarkerRegexTest(s) ==
    LET e == MarkerEnd(s, SkipSpaces(s, 1))
    IN  e > 0 /\ e <= Len(s) /\ IsSpace(s[e])

\* FormatLine whose bullet lacks the space after the dash
FormatLine_NoSpace(line) ==
    LET originalLine == TrimEnd(line)
    IN  IF Len(Trim(originalLine)) > 0
        THEN IF ListMarkerRegexTest(originalLine)
             THEN originalLine
             ELSE <<"-">> \o TrimStart(originalLine)
        ELSE line

\* the body of lines.forEach: what one line adds to sectionString
FormatLine(line) ==
    LET originalLine == TrimEnd(line)
    IN  IF Len(Trim(originalLine)) > 0
        THEN IF ListMarkerRegexTest(originalLine)
             THEN originalLine
             ELSE <<"-", " ">> \o TrimStart(originalLine)
        ELSE line

\* hasActualContent after the loop
HasActualContent(lines) ==
    \E i \in 1..Len(lines) : Len(Trim(TrimEnd(lines[i]))) > 0

FormatLines(lines) == [i \in 1..Len(lines) |-> FormatLine(lines[i])]

\* title.toLowerCase() of the two titles generateCommentBody uses
ToLowerCase(t) ==
    CASE t = "Detailed Analysis" -> "detailed analysis"
      [] t = "Recommendations" -> "recommendations"
      [] OTHER -> t

\* the lines of the returned string; the last, empty line is the extra '\n'
FormatSectionAsBulletedList(t, c) ==
    LET header == <<"### ", t>>
    IN  IF Len(c) > 0 /\ Len(Trim(c)) > 0
        THEN LET lines == Split(c)
             IN  <<header>> \o FormatLines(lines)
                 \o (IF HasActualContent(lines) THEN <<>>
                     ELSE << <<"No ", ToLowerCase(t),
                               " provided (content was empty or whitespace only).">> >>)
                 \o << <<>> >>
        ELSE <<header, <<"No ", ToLowerCase(t), " provided.">>, <<>> >>

(***************************************************************************)
(* Values thrown and core.setFailed messages.                              *)
(***************************************************************************)
\* a thrown value: an Error with its message, or a value that is no Error
\* (error.message of such a value is undefined)
ErrorValue(m) == [isError |-> TRUE, message |-> m]

NonErrorValue == [isError |-> FALSE, message |-> "undefined"]

\* what an Octokit request does: resolve, reject with an Error, or reject with
\* a value that is no Error (the client is typed any)
OctokitOutcomes == {"ok", "throwError", "throwOther"}

\* fs/promises readdir resolves or rejects with an Error
ReaddirOutcomes == {"ok", "throwError"}

Thrown(outcome, m) ==
    IF outcome = "throwError" THEN ErrorValue(m) ELSE NonErrorValue

Message(kind, text, file, score, threshold) ==
    [kind |-> kind, text |-> text, file |-> file, score |-> score,
     threshold |-> threshold]

PlainMessage(kind, text) == Message(kind, text, <<>>, 0, 0)

Call(api, ok, what) == [api |-> api, ok |-> ok, what |-> what]

VALID_TASKS == {"schema_review", "config_review"}

\* catch (error) { if (error instanceof Error) core.setFailed(error.message) }
CatchSetFailed(err) ==
    IF err.isError
    THEN Append(failedMessages, PlainMessage("error", err.message))
    ELSE failedMessages

(***************************************************************************)
(* parseInt(failureThresholdInput, 10)                                     *)
(***************************************************************************)
NaN == [isNaN |-> TRUE, n |-> 0]

Number(n) == [isNaN |-> FALSE, n |-> n]

DigitValue(c) ==
    CASE c = "0" -> 0 [] c = "1" -> 1 [] c = "2" -> 2 [] c = "3" -> 3
      [] c = "4" -> 4 [] c = "5" -> 5 [] c = "6" -> 6 [] c = "7" -> 7
      [] c = "8" -> 8 [] c = "9" -> 9

RECURSIVE DigitsValue(_, _, _)
\* the value of the digits of s from index i on, acc being the value so far
DigitsValue(s, i, acc) ==
    IF i <= Len(s) /\ IsDigit(s[i])
    THEN DigitsValue(s, i + 1, 10 * acc + DigitValue(s[i]))
    ELSE acc

\* leading white space, an optional sign, then the longest run of digits;
\* NaN when there is no digit
ParseInt(s) ==
    LET p == SkipSpaces(s, 1)
        signed == p <= Len(s) /\ s[p] \in {"-", "+"}
        d == IF signed THEN p + 1 ELSE p
    IN  IF d <= Len(s) /\ IsDigit(s[d])
        THEN Number((IF signed /\ s[p] = "-" THEN -1 ELSE 1) * DigitsValue(s, d, 0))
        ELSE NaN

failureThreshold == ParseInt(failureThresholdInput)

\* InvalidThreshold without the upper limit
InvalidThreshold_NoUpperLimit(t) == t.isNaN \/ t.n < 0

\* isNaN(failureThreshold) || failureThreshold < 0 || failureThreshold > 100
InvalidThreshold(t) == t.isNaN \/ t.n < 0 \/ t.n > 100

(***************************************************************************)
(* getFileContentAtRef                                                     *)
(***************************************************************************)
\* response is what repos.getContent answers for one path at one ref
GetFileContentAtRef(response) ==
    CASE response = "base64File" -> "decoded file content"
      [] response = "plainFile" -> "file content"
      [] response = "directory" -> "This is a directory, content not displayed."
      [] response = "emptyFile" -> "Could not retrieve content for this file."
      [] response = "throwError" -> "Could not retrieve content (Error: request failed)"
      [] response = "throwOther" -> "Could not retrieve content (Error: undefined)"

(***************************************************************************)
(* askAI and the review of one file                                        *)
(***************************************************************************)
MinScore == 0

MaxScore == 100

InitialLowestScore == 100

\* what generateObject is given by the model: an object, or a failed call
AiResponse(kind, score, summary, analysis, recommendations) ==
    [kind |-> kind, score |-> score, executiveSummary |-> summary,
     detailedAnalysis |-> analysis, recommendations |-> recommendations]

\* z.number().min(0).max(100)
AiResponseSchema(response) ==
    response.score >= MinScore /\ response.score <= MaxScore

AskAISucceeds(response) ==
    response.kind = "object" /\ AiResponseSchema(response)

\* the object askAI returns
AskAIObject(response) ==
    [score |-> response.score, executiveSummary |-> response.executiveSummary,
     detailedAnalysis |-> response.detailedAnalysis,
     recommendations |-> response.recommendations]

\* the Error askAI throws whatever went wrong
AskAIError ==
    ErrorValue("Failed to get a valid structured response from the AI model.")

\* error instanceof Error ? error.message : String(error)
ErrorMessageOf(err) == IF err.isError THEN err.message ELSE "thrown value"

\* reviewSingleFile with a catch that does not record the error
ReviewSingleFileEntry_NoError(filePath, oldResponse, newResponse, aiResponse) ==
    [filePath |-> filePath,
     oldFileContent |-> GetFileContentAtRef(oldResponse),
     newFileContent |-> GetFileContentAtRef(newResponse),
     aiReview |-> IF AskAISucceeds(aiResponse)
                  THEN <<AskAIObject(aiResponse)>> ELSE <<>>,
     aiError |-> <<>>]

\* the entry reviewSingleFile returns; an optional field is a sequence of
\* length 0 (absent) or 1 (present)
ReviewSingleFileEntry(filePath, oldResponse, newResponse, aiResponse) ==
    [filePath |-> filePath,
     oldFileContent |-> GetFileContentAtRef(oldResponse),
     newFileContent |-> GetFileContentAtRef(newResponse),
     aiReview |-> IF AskAISucceeds(aiResponse)
                  THEN <<AskAIObject(aiResponse)>> ELSE <<>>,
     aiError |-> IF AskAISucceeds(aiResponse)
                 THEN <<>> ELSE <<ErrorMessageOf(AskAIError)>>]

\* LowersScore that also takes a score equal to the lowest so far
LowersScore_NotStrict(entry, lowest) ==
    Len(entry.aiReview) > 0 /\ entry.aiReview[1].score <= lowest

\* LowersScore with the comparison turned round
LowersScore_Greater(entry, lowest) ==
    Len(entry.aiReview) > 0 /\ entry.aiReview[1].score > lowest

\* reviewedFileEntry.aiReview && reviewedFileEntry.aiReview.score < overallLowestScore
LowersScore(entry, lowest) ==
    Len(entry.aiReview) > 0 /\ entry.aiReview[1].score < lowest

\* the three external calls of reviewSingleFile, in order
ReviewCalls(oldResponse, newResponse, aiResponse) ==
    << Call("getContent", oldResponse \notin {"throwError", "throwOther"}, "base"),
       Call("getContent", newResponse \notin {"throwError", "throwOther"}, "head"),
       Call("askAI", AskAISucceeds(aiResponse), "review") >>

(***************************************************************************)
(* generateCommentBody                                                     *)
(***************************************************************************)
\* ScorePrefix with the first limit included in the danger range
ScorePrefix_LimitIncluded(score) ==
    IF score <= 25 THEN "Danger"
    ELSE IF score < 75 THEN "Warning"
    ELSE "Safe"

\* the badge of the score line (the span and its emoji are left out)
ScorePrefix(score) ==
    IF score < 25 THEN "Danger"
    ELSE IF score < 75 THEN "Warning"
    ELSE "Safe"

\* encodeURIComponent on the characters file paths are made of here
EncodeURIComponent(s) == [i \in 1..Len(s) |-> IF s[i] = "/" THEN "%2F" ELSE s[i]]

FileLinkLine(filePath) ==
    <<"<sub>File: [">> \o filePath
        \o <<"](https://github.com/owner/repo/pull/N/files#">>
        \o EncodeURIComponent(filePath) \o <<")</sub>">>

\* the lines one reviewed file adds to the comment
FileCommentLines(reviewedFile) ==
    IF Len(reviewedFile.aiReview) > 0
    THEN LET aiReview == reviewedFile.aiReview[1]
         IN  << <<"### **Score:** ", ScorePrefix(aiReview.score),
                  ToString(aiReview.score), "/100">>, <<>>,
                FileLinkLine(reviewedFile.filePath), <<>>,
                <<"**Executive Summary:**">> >>
             \o Split(aiReview.executiveSummary) \o << <<>> >>
             \o FormatSectionAsBulletedList("Detailed Analysis", aiReview.detailedAnalysis)
             \o FormatSectionAsBulletedList("Recommendations", aiReview.recommendations)
    ELSE << FileLinkLine(reviewedFile.filePath), <<>>,
            <<"##### AI-Powered Review">> >>
         \o (IF Len(reviewedFile.aiError) > 0 /\ reviewedFile.aiError[1] # ""
             THEN << <<"*AI review could not be generated for this file. Error: ",
                       reviewedFile.aiError[1], "*">>, <<>> >>
             ELSE << <<"*AI review data not available for this file.*">>, <<>> >>)

RECURSIVE FilesCommentLines(_)
FilesCommentLines(files) ==
    IF files = <<>> THEN <<>>
    ELSE FileCommentLines(Head(files)) \o FilesCommentLines(Tail(files))

GenerateCommentBodyLines(files, directory) ==
    << <<"# EventCatalog: Schema Review">>, <<>>,
       <<"The following files ">>
          \o (IF directory # <<>> THEN <<"in '">> \o directory \o <<"' ">> ELSE <<>>)
          \o <<"were modified in this pull request:">>,
       <<>> >>
    \o FilesCommentLines(files)

\* the body of the comment posted when the pull request changed no file
NoFilesCommentBody ==
    << <<"## EventCatalog: Detected File Changes">>, <<>>,
       <<"No files were changed in this pull request.">> >>

(***************************************************************************)
(* getChangedFiles                                                         *)
(***************************************************************************)
GetChangedFiles(files, directory) ==
    IF directory # <<>>
    THEN SelectSeq(files, LAMBDA f : StartsWith(f, directory))
    ELSE files

(***************************************************************************)
(* The inputs the model draws from.                                        *)
(***************************************************************************)
PathA == <<"s", "/", "a">>

PathB == <<"d", "/", "b">>

Paths == {PathA, PathB}

SeqsUpTo(S, n) == UNION {[1..k -> S] : k \in 0..n}

Tokens == {"", "token"}

Tasks == VALID_TASKS \cup {"bogus"}

\* failure_threshold as typed: absent, no number, out of range, in range
ThresholdInputs ==
    { <<>>, <<"a">>, <<"-", "1">>, <<"0">>, <<"5", "0">>, <<"1", "0", "0">>,
      <<"1", "0", "1">> }

\* catalog_directory: absent, a prefix of PathA only, a prefix of no path
Directories == { <<>>, <<"s">>, <<"x">> }

EventNames == {"pull_request", "push"}

\* the scores the model answers with in a whole run
SampleScores == {40, 80, 100}

\* every score the model may answer with, one below and one above the schema's range
RawScores == (MinScore - 1)..(MaxScore + 1)

SampleSummary == <<"o", "k">>

SampleAnalysis == <<"a", NL, "-", " ", "b">>

\* the answers of the model: an object with one of the scores, or a failed call
AiResponses(scores) ==
    { AiResponse("object", sc, SampleSummary, SampleAnalysis, SampleAnalysis) :
        sc \in scores }
    \cup { AiResponse("apiError", 0, <<>>, <<>>, <<>>) }

\* the answers of repos.getContent: the file, or a failed request
FetchSample == {"base64File", "throwError"}

\* the i-th path of the list reviewed when every score is tried
AlternatingPath(i) == IF i % 2 = 1 THEN PathA ELSE PathB

(***************************************************************************)
(* run                                                                     *)
(***************************************************************************)
\* a value thrown inside the try of run reaches its catch
Throw(err) ==
    /\ caught' = Append(caught, err)
    /\ failedMessages' = CatchSetFailed(err)
    /\ pc' = "done"

SetFailed(message) ==
    /\ failedMessages' = Append(failedMessages, message)
    /\ pc' = "done"
    /\ UNCHANGED caught

\* run, from the inputs to the listing of the catalog directory
RunStart ==
    /\ pc = "start"
    /\ IF githubToken = ""
       THEN /\ Throw(ErrorValue("Input required and not supplied: github_token"))
            /\ UNCHANGED calls
       ELSE IF task \notin VALID_TASKS
       THEN /\ SetFailed(PlainMessage("invalid_task", "Invalid input for task."))
            /\ UNCHANGED calls
       ELSE IF catalogDirectory # <<>>
       THEN \E outcome \in ReaddirOutcomes :
                /\ calls' = Append(calls, Call("readdir", outcome = "ok", "catalog"))
                /\ IF outcome = "ok"
                   THEN pc' = "checks" /\ UNCHANGED <<failedMessages, caught>>
                   ELSE Throw(Thrown(outcome, "ENOENT: no such file or directory"))
       ELSE pc' = "checks" /\ UNCHANGED <<calls, failedMessages, caught>>
    /\ UNCHANGED <<inputVars, reviewVars, commentBody, formatVars>>

\* AfterListing that never posts the comment that nothing changed
AfterListing_NeverComments(changed, directory) ==
    IF Len(changed) > 0 THEN "review" ELSE "done"

\* AfterListing that posts the comment even when a directory filter is set
AfterListing_AlwaysComments(changed, directory) ==
    IF Len(changed) > 0 THEN "review" ELSE "noFilesComment"

\* initialChecksAndGetChangedFiles, once the changed files are known: review
\* them, stop silently, or post the comment that nothing changed
AfterListing(changed, directory) ==
    IF Len(changed) > 0 THEN "review"
    ELSE IF directory # <<>> THEN "done"
    ELSE "noFilesComment"

\* run, the threshold check, then initialChecksAndGetChangedFiles up to its
\* decision; on shouldContinue, performSchemaReview is entered
InitialChecks ==
    /\ pc = "checks"
    /\ IF InvalidThreshold(failureThreshold)
       THEN /\ SetFailed(PlainMessage("invalid_threshold",
                                      "Invalid input for failure_threshold."))
            /\ UNCHANGED <<calls, reviewVars>>
       ELSE IF eventName # "pull_request"
       THEN /\ SetFailed(PlainMessage("not_pull_request",
                            "This action can only be run on pull_request events."))
            /\ UNCHANGED <<calls, reviewVars>>
       ELSE IF ~hasPullRequest
       THEN /\ SetFailed(PlainMessage("payload_missing",
                                      "Pull request payload is missing."))
            /\ UNCHANGED <<calls, reviewVars>>
       ELSE \E outcome \in OctokitOutcomes :
                /\ calls' = Append(calls, Call("listFiles", outcome = "ok", "pull"))
                /\ IF outcome # "ok"
                   THEN /\ Throw(Thrown(outcome, "listFiles failed"))
                        /\ UNCHANGED reviewVars
                   ELSE LET changed == GetChangedFiles(prFiles, catalogDirectory)
                        IN  /\ changedFilePaths' = changed
                            /\ reviewIndex' = 1
                            /\ reviewedFiles' = <<>>
                            /\ overallLowestScore' = InitialLowestScore
                            /\ lowScoreFile' = <<>>
                            /\ pc' = AfterListing(changed, catalogDirectory)
                            /\ UNCHANGED <<failedMessages, caught>>
    /\ UNCHANGED <<inputVars, commentBody, formatVars>>

\* initialChecksAndGetChangedFiles: the comment posted when nothing changed
PostNoFilesComment ==
    /\ pc = "noFilesComment"
    /\ \E outcome \in OctokitOutcomes :
           /\ calls' = Append(calls, Call("createComment", outcome = "ok", "noFiles"))
           /\ IF outcome = "ok"
              THEN pc' = "done" /\ UNCHANGED <<failedMessages, caught>>
              ELSE Throw(Thrown(outcome, "createComment failed"))
    /\ UNCHANGED <<inputVars, reviewVars, commentBody, formatVars>>

\* one iteration of the loop of performSchemaReview
ReviewSingleFile(fetches, aiResponses) ==
    /\ pc = "review"
    /\ reviewIndex <= Len(changedFilePaths)
    /\ \E oldResponse \in fetches, newResponse \in fetches, aiResponse \in aiResponses :
           LET filePath == changedFilePaths[reviewIndex]
               entry == ReviewSingleFileEntry(filePath, oldResponse, newResponse,
                                              aiResponse)
           IN  /\ reviewedFiles' = Append(reviewedFiles, entry)
               /\ IF LowersScore(entry, overallLowestScore)
                  THEN /\ overallLowestScore' = entry.aiReview[1].score
                       /\ lowScoreFile' = filePath
                  ELSE UNCHANGED <<overallLowestScore, lowScoreFile>>
               /\ calls' = calls \o ReviewCalls(oldResponse, newResponse, aiResponse)
    /\ reviewIndex' = reviewIndex + 1
    /\ UNCHANGED <<inputVars, pc, changedFilePaths, commentBody, failedMessages,
                   caught, formatVars>>

\* performSchemaReview returns its result
PerformSchemaReviewReturn ==
    /\ pc = "review"
    /\ reviewIndex > Len(changedFilePaths)
    /\ pc' = "render"
    /\ UNCHANGED <<inputVars, reviewVars, commentBody, failedMessages, calls,
                   caught, formatVars>>

\* generateCommentBody
GenerateCommentBody ==
    /\ pc = "render"
    /\ commentBody' = GenerateCommentBodyLines(reviewedFiles, catalogDirectory)
    /\ pc' = "comment"
    /\ UNCHANGED <<inputVars, reviewVars, failedMessages, calls, caught, formatVars>>

\* run: the review comment is posted
PostReviewComment ==
    /\ pc = "comment"
    /\ \E outcome \in OctokitOutcomes :
           /\ calls' = Append(calls, Call("createComment", outcome = "ok", "review"))
           /\ IF outcome = "ok"
              THEN pc' = "gate" /\ UNCHANGED <<failedMessages, caught>>
              ELSE Throw(Thrown(outcome, "createComment failed"))
    /\ UNCHANGED <<inputVars, reviewVars, commentBody, formatVars>>

\* ThresholdGate failing the run also when the score equals the threshold
ThresholdGate_NotStrict ==
    /\ pc = "gate"
    /\ IF overallLowestScore <= failureThreshold.n
       THEN SetFailed(Message("threshold", "Action failed: score below the threshold",
                              lowScoreFile, overallLowestScore, failureThreshold.n))
       ELSE pc' = "done" /\ UNCHANGED <<failedMessages, caught>>
    /\ UNCHANGED <<inputVars, reviewVars, commentBody, calls, formatVars>>

\* run: the score is compared with the threshold
ThresholdGate ==
    /\ pc = "gate"
    /\ IF overallLowestScore < failureThreshold.n
       THEN SetFailed(Message("threshold", "Action failed: score below the threshold",
                              lowScoreFile, overallLowestScore, failureThreshold.n))
       ELSE pc' = "done" /\ UNCHANGED <<failedMessages, caught>>
    /\ UNCHANGED <<inputVars, reviewVars, commentBody, calls, formatVars>>

\* formatSectionAsBulletedList called on its own
FormatSection ==
    /\ pc = "format"
    /\ sectionString' = FormatSectionAsBulletedList(title, content)
    /\ pc' = "formatted"
    /\ UNCHANGED <<inputVars, reviewVars, commentBody, failedMessages, calls, caught,
                   title, content>>

(***************************************************************************)
(* Specifications.                                                         *)
(***************************************************************************)
InitProgram ==
    /\ reviewIndex = 1
    /\ overallLowestScore = InitialLowestScore
    /\ lowScoreFile = <<>>
    /\ commentBody = <<>>
    /\ failedMessages = <<>>
    /\ calls = <<>>
    /\ caught = <<>>
    /\ title = "Detailed Analysis"
    /\ content = <<>>
    /\ sectionString = <<>>

\* a whole run of the action
Init ==
    /\ githubToken \in Tokens
    /\ task \in Tasks
    /\ failureThresholdInput \in ThresholdInputs
    /\ catalogDirectory \in Directories
    /\ eventName \in EventNames
    /\ hasPullRequest \in BOOLEAN
    /\ prFiles \in SeqsUpTo(Paths, MaxFiles)
    /\ pc = "start"
    /\ changedFilePaths = <<>>
    /\ reviewedFiles = <<>>
    /\ InitProgram

Next ==
    \/ RunStart
    \/ InitialChecks
    \/ PostNoFilesComment
    \/ ReviewSingleFile(FetchSample, AiResponses(SampleScores))
    \/ PerformSchemaReviewReturn
    \/ GenerateCommentBody
    \/ PostReviewComment
    \/ ThresholdGate

Spec == Init /\ [][Next]_vars

InitDefaults ==
    /\ githubToken = "token"
    /\ task = "schema_review"
    /\ failureThresholdInput = <<"5", "0">>
    /\ catalogDirectory = <<>>
    /\ eventName = "pull_request"
    /\ hasPullRequest = TRUE

\* performSchemaReview on its own, the model answering with any score
InitReview ==
    /\ InitDefaults
    /\ prFiles \in {[i \in 1..k |-> AlternatingPath(i)] : k \in 0..MaxFiles}
    /\ InitProgram
    /\ pc = "review"
    /\ changedFilePaths = prFiles
    /\ reviewedFiles = <<>>

NextReview ==
    \/ ReviewSingleFile({"base64File"}, AiResponses(RawScores))
    \/ PerformSchemaReviewReturn

SpecReview == InitReview /\ [][NextReview]_vars

\* the reviewed files generateCommentBody may be given: reviewed with any score
\* of the schema's range, failed, or with neither field set
RenderedFiles ==
    { ReviewSingleFileEntry(PathA, "base64File", "base64File", r) :
        r \in AiResponses(MinScore..MaxScore) }
    \cup { [filePath |-> PathA, oldFileContent |-> "decoded file content",
            newFileContent |-> "decoded file content", aiReview |-> <<>>,
            aiError |-> <<>>] }

\* generateCommentBody on its own
InitComment ==
    /\ githubToken = "token"
    /\ task = "schema_review"
    /\ failureThresholdInput = <<"5", "0">>
    /\ catalogDirectory \in Directories
    /\ eventName = "pull_request"
    /\ hasPullRequest = TRUE
    /\ prFiles = <<>>
    /\ changedFilePaths = <<>>
    /\ InitProgram
    /\ reviewedFiles \in SeqsUpTo(RenderedFiles, MaxRendered)
    /\ pc = "render"

NextComment == GenerateCommentBody

SpecComment == InitComment /\ [][NextComment]_vars

\* formatSectionAsBulletedList on its own, on every text of up to MaxLen characters
FormatChars == {" ", "-", "o", "1", "i", ".", "a", NL}

InitFormat ==
    /\ InitDefaults
    /\ prFiles = <<>>
    /\ changedFilePaths = <<>>
    /\ reviewIndex = 1
    /\ reviewedFiles = <<>>
    /\ overallLowestScore = InitialLowestScore
    /\ lowScoreFile = <<>>
    /\ commentBody = <<>>
    /\ failedMessages = <<>>
    /\ calls = <<>>
    /\ caught = <<>>
    /\ title \in {"Detailed Analysis", "Recommendations"}
    /\ content \in SeqsUpTo(FormatChars, MaxLen)
    /\ sectionString = <<>>
    /\ pc = "format"

NextFormat == FormatSection

SpecFormat == InitFormat /\ [][NextFormat]_vars

(***************************************************************************)
(* Properties.                                                             *)
(***************************************************************************)
Min(S) == CHOOSE x \in S : \A y \in S : x <= y

HasAssessment(f) == Len(f.aiReview) = 1

HasFailureReason(f) == Len(f.aiError) = 1 /\ f.aiError[1] # ""

AssessedScores(files) ==
    { files[i].aiReview[1].score : i \in {j \in 1..Len(files) : HasAssessment(files[j])} }

CallsOf(api) == SelectSeq(calls, LAMBDA c : c.api = api)

CommentsPosted(what) ==
    Len(SelectSeq(calls, LAMBDA c : c.api = "createComment" /\ c.ok /\ c.what = what))

\* C1: in every state of performSchemaReview (after each iteration, for the
\* paths processed so far, and on return) overallLowestScore is the least
\* score of the outcomes that carry an assessment, and 100 when none does.
C1_LowestScoreIsMinimum ==
    LET scores == AssessedScores(reviewedFiles)
    IN  /\ Len(reviewedFiles) = reviewIndex - 1
        /\ overallLowestScore = IF scores = {} THEN 100 ELSE Min(scores)

\* C1 witness: returned after a review that succeeded with score 30 and one
\* that failed; the failure left the minimum at 30.
C1_Witness ==
    /\ pc = "render"
    /\ Len(reviewedFiles) = 2
    /\ HasAssessment(reviewedFiles[1])
    /\ reviewedFiles[1].aiReview[1].score = 30
    /\ HasFailureReason(reviewedFiles[2])
    /\ overallLowestScore = 30

\* C2: performSchemaReview never stops early: while it runs it holds one
\* outcome per path processed so far, in input order, and once it has returned
\* one outcome per input path; each outcome carries an assessment or a failure
\* reason, never both and never neither.
C2_OneOutcomePerPath ==
    /\ pc = "review" => Len(reviewedFiles) = reviewIndex - 1
    /\ (pc \in {"render", "comment", "gate"} \/ (pc = "done" /\ changedFilePaths # <<>>))
          => Len(reviewedFiles) = Len(changedFilePaths)
    /\ Len(reviewedFiles) <= Len(changedFilePaths)
    /\ Len(CallsOf("askAI")) = Len(reviewedFiles)
    /\ \A i \in 1..Len(reviewedFiles) :
          /\ reviewedFiles[i].filePath = changedFilePaths[i]
          /\ HasAssessment(reviewedFiles[i]) # HasFailureReason(reviewedFiles[i])
          /\ HasAssessment(reviewedFiles[i]) = CallsOf("askAI")[i].ok

\* C2 witness: returned with two outcomes; both content fetches and the review
\* of the first file failed, and the second file was still reviewed.
C2_Witness ==
    /\ pc = "render"
    /\ Len(reviewedFiles) = 2
    /\ ~CallsOf("getContent")[1].ok
    /\ ~CallsOf("getContent")[2].ok
    /\ HasFailureReason(reviewedFiles[1])
    /\ HasAssessment(reviewedFiles[2])

ThresholdMessages == SelectSeq(failedMessages, LAMBDA m : m.kind = "threshold")

\* the configuration as the claims word it, read from the inputs
TaskIsValid == task \in {"schema_review", "config_review"}

ThresholdIsValid == ~failureThreshold.isNaN /\ failureThreshold.n \in 0..100

ConfigurationIsValid == githubToken # "" /\ TaskIsValid /\ ThresholdIsValid

IsPullRequestEvent == eventName = "pull_request" /\ hasPullRequest

\* the run went past the posting of the review comment, so reached the gate
ReachedGate == pc = "gate" \/ (pc = "done" /\ CommentsPosted("review") > 0)

\* C3: a run that reaches the final gate has a threshold t in 0..100; once past
\* the gate it is marked failed by the threshold check iff lowestScore < t, the
\* message names lowScoreFile, lowestScore and t, and whenever that message
\* exists the review comment has been posted exactly once; a run that reviewed
\* its files and met no uncaught failure has posted the comment whatever the score.
C3_ThresholdGate ==
    /\ ReachedGate => ThresholdIsValid /\ CommentsPosted("review") = 1
    /\ (pc = "done" /\ ReachedGate) =>
          /\ (Len(ThresholdMessages) = 1) = (overallLowestScore < failureThreshold.n)
          /\ Len(failedMessages) = Len(ThresholdMessages)
    /\ \A i \in 1..Len(ThresholdMessages) :
          /\ ThresholdMessages[i].file = lowScoreFile
          /\ ThresholdMessages[i].file # <<>>
          /\ ThresholdMessages[i].score = overallLowestScore
          /\ ThresholdMessages[i].threshold = failureThreshold.n
          /\ CommentsPosted("review") = 1
          /\ CommentsPosted("noFiles") = 0
          /\ Len(ThresholdMessages) = 1
    /\ (pc = "done" /\ changedFilePaths # <<>> /\ caught = <<>>) =>
          CommentsPosted("review") = 1

\* C3 witness: threshold 50, lowest score 40 from s/a; the run is marked failed
\* with the comment posted once.
C3_Witness ==
    /\ pc = "done"
    /\ failureThreshold.n = 50
    /\ overallLowestScore = 40
    /\ lowScoreFile = PathA
    /\ Len(ThresholdMessages) = 1
    /\ CommentsPosted("review") = 1

\* C4: with a task outside the valid set, a threshold that is no number in
\* 0..100, an event that is no pull_request event or a missing pull-request
\* payload, the run never fetches content, calls the model or posts a comment,
\* never lists the changed files when the configuration is what is wrong, and
\* ends marked failed.
C4_SetupFailuresAbort ==
    (~TaskIsValid \/ ~ThresholdIsValid \/ ~IsPullRequestEvent) =>
        /\ CallsOf("getContent") = <<>>
        /\ CallsOf("askAI") = <<>>
        /\ CallsOf("createComment") = <<>>
        /\ (~TaskIsValid \/ ~ThresholdIsValid) => CallsOf("listFiles") = <<>>
        /\ pc \in {"start", "checks", "done"}
        /\ pc = "done" => failedMessages # <<>>

\* C4 witness: a threshold of 101 with everything else in order; the catalog
\* directory was read and the run ended marked failed for the threshold.
C4_Witness ==
    /\ pc = "done"
    /\ githubToken # ""
    /\ TaskIsValid
    /\ IsPullRequestEvent
    /\ failureThreshold.n = 101
    /\ Len(CallsOf("readdir")) = 1
    /\ Len(failedMessages) = 1
    /\ failedMessages[1].kind = "invalid_threshold"

\* C5: on a pull-request event with no changed file and no directory filter the
\* run never fetches content, never calls the model and never posts a review
\* comment; with a valid configuration and no failed call it ends having posted
\* the "no files changed" comment exactly once and is not marked failed.
C5_NoFilesChanged ==
    (IsPullRequestEvent /\ prFiles = <<>> /\ catalogDirectory = <<>>) =>
        /\ CallsOf("getContent") = <<>>
        /\ CallsOf("askAI") = <<>>
        /\ \A i \in 1..Len(calls) : calls[i].what # "review"
        /\ Len(CallsOf("createComment")) <= 1
        /\ (pc = "done" /\ ConfigurationIsValid /\ caught = <<>>) =>
              /\ CommentsPosted("noFiles") = 1
              /\ failedMessages = <<>>

\* C5 witness: such a run has ended, its one comment posted.
C5_Witness ==
    /\ IsPullRequestEvent /\ prFiles = <<>> /\ catalogDirectory = <<>>
    /\ ConfigurationIsValid
    /\ pc = "done"
    /\ caught = <<>>
    /\ calls = <<Call("listFiles", TRUE, "pull"), Call("createComment", TRUE, "noFiles")>>

\* the directory filter is set and is a prefix of none of the changed files
FilterMatchesNothing ==
    /\ catalogDirectory # <<>>
    /\ \A i \in 1..Len(prFiles) : ~StartsWith(prFiles[i], catalogDirectory)

\* C6: on a pull-request event with a directory filter that is a prefix of none
\* of the changed files the run posts no comment, fetches no content and never
\* calls the model; it can always go on until it has ended, and with a valid
\* configuration and no failed call it ends not marked failed.
C6_FilterMatchesNothing ==
    (IsPullRequestEvent /\ FilterMatchesNothing) =>
        /\ CallsOf("createComment") = <<>>
        /\ CallsOf("askAI") = <<>>
        /\ CallsOf("getContent") = <<>>
        /\ pc \in {"start", "checks", "done"}
        /\ pc # "done" => ENABLED Next
        /\ (pc = "done" /\ ConfigurationIsValid /\ caught = <<>>) => failedMessages = <<>>

\* C6 witness: filter x, changed files s/a and d/b; the run listed the files and
\* ended with nothing posted.
C6_Witness ==
    /\ IsPullRequestEvent
    /\ ConfigurationIsValid
    /\ catalogDirectory = <<"x">>
    /\ prFiles = <<PathA, PathB>>
    /\ pc = "done"
    /\ caught = <<>>
    /\ calls = <<Call("readdir", TRUE, "catalog"), Call("listFiles", TRUE, "pull")>>
    /\ failedMessages = <<>>

\* two files were reviewed: the model call of the first failed, that of the
\* second succeeded with score 80
FirstFailsSecondScores80 ==
    /\ pc = "render"
    /\ Len(changedFilePaths) = 2
    /\ Len(CallsOf("askAI")) = 2
    /\ ~CallsOf("askAI")[1].ok
    /\ CallsOf("askAI")[2].ok
    /\ Len(reviewedFiles) = 2
    /\ HasAssessment(reviewedFiles[2])
    /\ reviewedFiles[2].aiReview[1].score = 80

TwoOutcomesFailureThen80 ==
    /\ Len(reviewedFiles) = 2
    /\ HasFailureReason(reviewedFiles[1])
    /\ ~HasAssessment(reviewedFiles[1])
    /\ HasAssessment(reviewedFiles[2])
    /\ reviewedFiles[2].aiReview[1].score = 80

\* C7 as stated: in that case the result holds two outcomes, the first with a
\* failure reason and no assessment, the second with score 80, and
\* lowestScore = 100.
C7_AsStated ==
    FirstFailsSecondScores80 =>
        TwoOutcomesFailureThen80 /\ overallLowestScore = 100

\* C7 amended: in that case the result holds two outcomes, the first with a
\* failure reason and no assessment, the second with score 80, and
\* lowestScore = 80 with lowScoreFile the second path: the failure does not
\* lower the score, the one assessment does.
C7_FailureThen80 ==
    FirstFailsSecondScores80 =>
        /\ TwoOutcomesFailureThen80
        /\ overallLowestScore = 80
        /\ lowScoreFile = changedFilePaths[2]

\* C7 witness: that case, returned.
C7_Witness ==
    /\ FirstFailsSecondScores80
    /\ reviewedFiles[1].filePath = PathA
    /\ reviewedFiles[2].filePath = PathB
    /\ overallLowestScore = 80

\* C8 as stated: whatever value is thrown inside run, the run is marked failed
\* with that value's message, and nothing is done after it.
C8_AsStated ==
    Len(caught) > 0 =>
        /\ pc = "done"
        /\ Len(failedMessages) = 1
        /\ failedMessages[1].text = caught[1].message
        /\ calls # <<>> => ~calls[Len(calls)].ok

\* the score lines of a comment body, in order
ScoreLines(body) ==
    SelectSeq(body, LAMBDA l : Len(l) > 0 /\ l[1] = "### **Score:** ")

AssessedFiles(files) == SelectSeq(files, HasAssessment)

\* C9: generateCommentBody emits one score line per assessed outcome, in
\* order, whose badge is danger iff s < 25, warning iff 25 <= s < 75 and safe
\* iff s >= 75, s being the outcome's score; an outcome without an assessment
\* gets no badge.
C9_SeverityBadge ==
    pc = "comment" =>
        LET lines == ScoreLines(commentBody)
            assessed == AssessedFiles(reviewedFiles)
        IN  /\ Len(lines) = Len(assessed)
            /\ \A i \in 1..Len(lines) :
                  LET sc == assessed[i].aiReview[1].score
                      badge == lines[i][2]
                  IN  /\ badge \in {"Danger", "Warning", "Safe"}
                      /\ (badge = "Danger") = (sc < 25)
                      /\ (badge = "Warning") = (25 <= sc /\ sc < 75)
                      /\ (badge = "Safe") = (sc >= 75)
                      /\ lines[i][3] = ToString(sc)

\* C9 witness: an outcome with score 25 was rendered with the warning badge.
C9_Witness ==
    /\ pc = "comment"
    /\ Len(reviewedFiles) = 1
    /\ HasAssessment(reviewedFiles[1])
    /\ reviewedFiles[1].aiReview[1].score = 25
    /\ Len(ScoreLines(commentBody)) = 1
    /\ ScoreLines(commentBody)[1][2] = "Warning"

\* a line that, after optional white space, starts with a list marker: one of
\* * - + o, digits followed by '.', or roman numerals followed by '.'
StartsWithMarker(line) == MarkerEnd(line, SkipSpaces(line, 1)) > 0

IsBlank(line) == SkipSpaces(line, 1) > Len(line)

\* every line of the text that is not blank starts with a list marker
MarkerPrefixed(text) ==
    \A i \in 1..Len(Split(text)) :
        IsBlank(Split(text)[i]) \/ StartsWithMarker(Split(text)[i])

RECURSIVE JoinWith(_, _)
\* lines.join(sep)
JoinWith(lines, sep) ==
    IF Len(lines) = 0 THEN <<>>
    ELSE IF Len(lines) = 1 THEN lines[1]
    ELSE lines[1] \o <<sep>> \o JoinWith(Tail(lines), sep)

\* the lines formatSectionAsBulletedList made of the lines of the content
FormattedBody == SubSeq(sectionString, 2, Len(sectionString) - 1)

\* C10: when every non-blank line of the content starts with a list marker,
\* formatting the formatted lines again gives the same lines: each line alone,
\* and the lines as the content of a second call.
C10_Idempotent ==
    (pc = "formatted" /\ Len(Trim(content)) > 0 /\ MarkerPrefixed(content)) =>
        /\ Len(FormattedBody) = Len(Split(content))
        /\ \A i \in 1..Len(FormattedBody) :
              FormatLine(FormattedBody[i]) = FormattedBody[i]
        /\ FormatSectionAsBulletedList(title, JoinWith(FormattedBody, NL))
              = sectionString

\* C10 witness: the content "-a", NL, " 1." starts each line with a marker
\* that no white space follows, so both lines were given a bullet.
C10_Witness ==
    /\ pc = "formatted"
    /\ content = <<"-", "a", NL, "1", ".">>
    /\ MarkerPrefixed(content)
    /\ FormattedBody = << <<"-", " ", "-", "a">>, <<"-", " ", "1", ".">> >>

\* the indices of the outcomes that carry an assessment
AssessedIndices == {i \in 1..Len(reviewedFiles) : HasAssessment(reviewedFiles[i])}

\* the first outcome, in input order, whose score is the least assessed score
EarliestLowest ==
    Min({i \in AssessedIndices :
            reviewedFiles[i].aiReview[1].score = Min(AssessedScores(reviewedFiles))})

\* performSchemaReview has returned
ReviewReturned ==
    pc \in {"render", "comment", "gate"} \/ (pc = "done" /\ changedFilePaths # <<>>)

\* C11 as stated: once performSchemaReview has returned with at least one
\* assessed outcome, lowScoreFile is the path of the earliest outcome whose
\* score is lowestScore.
C11_AsStated ==
    (ReviewReturned /\ AssessedIndices # {}) =>
        /\ overallLowestScore = reviewedFiles[EarliestLowest].aiReview[1].score
        /\ lowScoreFile = changedFilePaths[EarliestLowest]

\* C11 amended: after each iteration and on return, when some assessed score is
\* below 100, lowScoreFile is the path of the earliest outcome whose score is
\* lowestScore (a later equal score does not replace it); when no outcome is
\* assessed or every assessed score is 100, lowScoreFile is still empty.  The
\* file a threshold message names is never empty and is the path of an
\* assessed outcome with the score the message reports.
C11_LowScoreFile ==
    LET assessed == AssessedIndices
        first == EarliestLowest
    IN  /\ IF assessed # {} /\ reviewedFiles[first].aiReview[1].score < 100
           THEN /\ overallLowestScore = reviewedFiles[first].aiReview[1].score
                /\ lowScoreFile = changedFilePaths[first]
                /\ lowScoreFile = reviewedFiles[first].filePath
           ELSE lowScoreFile = <<>> /\ overallLowestScore = 100
        /\ \A k \in 1..Len(ThresholdMessages) :
              /\ ThresholdMessages[k].file # <<>>
              /\ \E i \in assessed :
                    /\ reviewedFiles[i].filePath = ThresholdMessages[k].file
                    /\ reviewedFiles[i].aiReview[1].score = ThresholdMessages[k].score

\* C11 witness: s/a then d/b both scored 40; the run failed the threshold of
\* 50 naming s/a, the earlier of the two.
C11_Witness ==
    /\ pc = "done"
    /\ changedFilePaths = <<PathA, PathB>>
    /\ AssessedIndices = {1, 2}
    /\ reviewedFiles[1].aiReview[1].score = 40
    /\ reviewedFiles[2].aiReview[1].score = 40
    /\ lowScoreFile = PathA
    /\ Len(ThresholdMessages) = 1
    /\ ThresholdMessages[1].file = PathA

====
